---- MODULE Spec2Model ----
(***************************************************************************)
(* Verification model of the data structures of the ymgyt/atcoder          *)
(* solutions: the Union-Find of abc177/d.rs and the iterative segment tree *)
(* of abc185/f.rs.  Vectors are modelled as functions over 0..len-1 so     *)
(* that indices are the indices of the source.  The contest programs that  *)
(* follow them (abc151/d.rs, abc278/b.rs, practice/b.rs, abc195/b.rs,      *)
(* abc085/c.rs) each have their own variables and their own specification. *)
(***************************************************************************)
EXTENDS Integers, Sequences, FiniteSets, TLC

\* ------------------------------------------------------------------ bounds
MaxN == 4          \* largest n passed to UnionFind::new
OverRun == 1       \* how far past the end an index argument may lie
MaxLen == 3        \* longest vector passed to SegmentTree::from_vec / new
MaxBuildLen == 5   \* longest vector of the from_vec / new + update comparison
MaxVal == 2        \* values stored in the segment tree are 0..MaxVal
DeepN == 8         \* elements of the forest grown by unions alone
MaxInput == 5      \* longest input text given to the Scanner
MaxCollect == 2    \* largest size passed to Scanner::collect
MaxHeight == 3     \* largest height of the maze of abc151 d
MaxWidth == 3      \* largest width of the maze of abc151 d
MaxWalls == 2      \* largest number of '#' cells of the maze
MaxLetters == 4    \* largest n read by main of practice b
MaxB == 4          \* largest bound b passed to solve of abc195 b
MaxW == 10         \* largest total w passed to solve of abc195 b
MaxBills == 3      \* largest requirement passed to resolve of abc085 c

\* ---------------------------------------------------------------- encoding
None == -1         \* Option::None of parent: Vec<Option<usize>>

VARIABLES parent, size, ref, call,          \* Union-Find
          tree, alt, ctor, other, idx, tcall, \* segment tree
          input, reader, buf, pos, got, scall, \* cio::Scanner
          maze, startCell, seen, queue, pops, maxSteps, \* abc151 d: check
          clock, t0, ticks, printed,           \* abc278 b: Clock and main
          order, vs, nextIdx, search, cache, lines, \* practice b
          solveIn, solveOut,                   \* abc195 b: solve
          resolveIn, resolveOut                \* abc085 c: resolve

ufVars == <<parent, size, ref, call>>
stVars == <<tree, alt, ctor, other, idx, tcall>>
scVars == <<input, reader, buf, pos, got, scall>>
bfVars == <<maze, startCell, seen, queue, pops, maxSteps>>
ckVars == <<clock, t0, ticks, printed>>
inVars == <<order, vs, nextIdx, search, cache, lines>>
soVars == <<solveIn, solveOut>>
rsVars == <<resolveIn, resolveOut>>
prVars == <<bfVars, ckVars, inVars, soVars, rsVars>>
libVars == <<ufVars, stVars, scVars>>
vars == <<ufVars, stVars, scVars, prVars>>

VecLen(v) == Cardinality(DOMAIN v)

\* Vec indexing v[i] panics unless i < v.len()
InRange(v, i) == i \in DOMAIN v

\* ============================================================== Union-Find

\* every set starts with size 0
UnionFindNewSizeZero(n) == [parent |-> [i \in 0..(n - 1) |-> None],
                            size   |-> [i \in 0..(n - 1) |-> 0]]

\* UnionFind::new
UnionFindNew(n) == [parent |-> [i \in 0..(n - 1) |-> None],
           size   |-> [i \in 0..(n - 1) |-> 1]]

\* UnionFind::root: the loop of lines 356-363; fuel counts the remaining
\* moves, a walk that is not at a root after VecLen(p) moves never ends
RECURSIVE RootLoop(_, _, _)
RootLoop(p, curr, fuel) ==
    IF ~InRange(p, curr) THEN [root |-> curr, out |-> "panic"]
    ELSE IF p[curr] = None THEN [root |-> curr, out |-> "ok"]
    ELSE IF fuel = 0 THEN [root |-> curr, out |-> "diverge"]
    ELSE RootLoop(p, p[curr], fuel - 1)

Root(p, x) == RootLoop(p, x, VecLen(p))

\* every visited node is re-pointed at its grandparent (path halving)
RECURSIVE RootWithOptimizeLoopHalving(_, _, _, _)
RootWithOptimizeLoopHalving(p, x, curr, fuel) ==
    IF ~InRange(p, curr) THEN [parent |-> p, root |-> curr, out |-> "panic"]
    ELSE IF p[curr] = None THEN [parent |-> p, root |-> curr, out |-> "ok"]
    ELSE IF fuel = 0 THEN [parent |-> p, root |-> curr, out |-> "diverge"]
    ELSE LET q == p[curr]
             g == IF p[q] = None THEN q ELSE p[q]
         IN RootWithOptimizeLoopHalving([p EXCEPT ![curr] = g], x, q, fuel - 1)

\* UnionFind::root_with_optimize: the loop of lines 368-376
RECURSIVE RootWithOptimizeLoop(_, _, _, _)
RootWithOptimizeLoop(p, x, curr, fuel) ==
    IF ~InRange(p, curr) THEN [parent |-> p, root |-> curr, out |-> "panic"]
    ELSE IF p[curr] = None THEN [parent |-> p, root |-> curr, out |-> "ok"]
    ELSE IF fuel = 0 THEN [parent |-> p, root |-> curr, out |-> "diverge"]
    ELSE RootWithOptimizeLoop([p EXCEPT ![x] = p[curr]], x, p[curr], fuel - 1)

\* a root search that stops at x itself, without walking the parent links
RootWithOptimizeNoWalk(p, x) ==
    [parent |-> p, root |-> x, out |-> IF InRange(p, x) THEN "ok" ELSE "panic"]

RootWithOptimize(p, x) == RootWithOptimizeLoop(p, x, x, VecLen(p))

\* the roots are never compared
SameRootNever(rx, ry) == FALSE

\* line 331: if x == y (on the two roots)
SameRoot(rx, ry) == rx = ry

\* the root of the larger set is attached under the root of the smaller one
LargeSmallSwapped(s, rx, ry) ==
    IF s[rx] >= s[ry] THEN [large |-> ry, small |-> rx]
                      ELSE [large |-> rx, small |-> ry]

\* on equal sizes the root of x is attached under the root of y
LargeSmallTieToY(s, rx, ry) ==
    IF s[rx] > s[ry] THEN [large |-> rx, small |-> ry]
                     ELSE [large |-> ry, small |-> rx]

\* lines 335-339: (large, small)
LargeSmall(s, rx, ry) ==
    IF s[rx] >= s[ry] THEN [large |-> rx, small |-> ry]
                      ELSE [large |-> ry, small |-> rx]

\* line 342: self.parent[small] = Some(large)
Attach(p, small, large) == [p EXCEPT ![small] = large]

\* the sum is written to the attached root instead of the surviving one
AddSizeToSmall(s, large, small) == [s EXCEPT ![small] = s[large] + s[small]]

\* line 343: self.size[large] += self.size[small]
AddSize(s, large, small) == [s EXCEPT ![large] = s[large] + s[small]]

\* union without the x == y test of lines 325-327
UnionNoEarlyReturn(p, s, x, y) ==
    LET rx == RootWithOptimize(p, x) IN
      IF rx.out # "ok" THEN [parent |-> rx.parent, size |-> s, res |-> rx.out]
      ELSE LET ry == RootWithOptimize(rx.parent, y) IN
        IF ry.out # "ok" THEN [parent |-> ry.parent, size |-> s, res |-> ry.out]
        ELSE IF SameRoot(rx.root, ry.root)
          THEN [parent |-> ry.parent, size |-> s, res |-> "AlreadyUnified"]
          ELSE LET ls == LargeSmall(s, rx.root, ry.root) IN
               [parent |-> Attach(ry.parent, ls.small, ls.large),
                size   |-> AddSize(s, ls.large, ls.small),
                res    |-> "Unified"]

\* UnionFind::union
Union(p, s, x, y) ==
    IF x = y THEN [parent |-> p, size |-> s, res |-> "AlreadyUnified"]
    ELSE LET rx == RootWithOptimize(p, x) IN
      IF rx.out # "ok" THEN [parent |-> rx.parent, size |-> s, res |-> rx.out]
      ELSE LET ry == RootWithOptimize(rx.parent, y) IN
        IF ry.out # "ok" THEN [parent |-> ry.parent, size |-> s, res |-> ry.out]
        ELSE IF SameRoot(rx.root, ry.root)
          THEN [parent |-> ry.parent, size |-> s, res |-> "AlreadyUnified"]
          ELSE LET ls == LargeSmall(s, rx.root, ry.root) IN
               [parent |-> Attach(ry.parent, ls.small, ls.large),
                size   |-> AddSize(s, ls.large, ls.small),
                res    |-> "Unified"]

\* equiv answers x == y without looking at the arrays
EquivShortcut(p, x, y) ==
    IF x = y THEN [res |-> TRUE, out |-> "ok"]
    ELSE LET rx == Root(p, x) ry == Root(p, y) IN
      IF rx.out # "ok" THEN [res |-> FALSE, out |-> rx.out]
      ELSE IF ry.out # "ok" THEN [res |-> FALSE, out |-> ry.out]
      ELSE [res |-> rx.root = ry.root, out |-> "ok"]

\* UnionFind::equiv
Equiv(p, x, y) ==
    LET rx == Root(p, x) IN
      IF rx.out # "ok" THEN [res |-> FALSE, out |-> rx.out]
      ELSE LET ry == Root(p, y) IN
        IF ry.out # "ok" THEN [res |-> FALSE, out |-> ry.out]
        ELSE [res |-> rx.root = ry.root, out |-> "ok"]

\* UnionFind::size
Size(s, x) ==
    IF InRange(s, x) THEN [res |-> s[x], out |-> "ok"]
                     ELSE [res |-> 0, out |-> "panic"]

\* main, lines 419-422: the loop `for i in 0..n` that keeps the maximum of
\* size(i)
RECURSIVE MaxSizeLoop(_, _, _)
MaxSizeLoop(s, i, max) ==
    IF i >= VecLen(s) THEN max
    ELSE MaxSizeLoop(s, i + 1, IF Size(s, i).res > max THEN Size(s, i).res ELSE max)

\* main prints the size of element 0 alone
MainOutputFirstOnly(s) == IF VecLen(s) = 0 THEN 0 ELSE Size(s, 0).res

\* main, lines 419-425: the number main prints
MainOutput(s) == MaxSizeLoop(s, 0, 0)

\* the partition the union calls made so far describe: ref[i] is the least
\* element of the class of i, and a union call joins the two classes
Merge(r, x, y) ==
    IF InRange(r, x) /\ InRange(r, y)
    THEN LET m == IF r[x] < r[y] THEN r[x] ELSE r[y] IN
         [i \in DOMAIN r |-> IF r[i] = r[x] \/ r[i] = r[y] THEN m ELSE r[i]]
    ELSE r

\* ============================================================ Segment tree

Values == 0..MaxVal

\* the values a caller of the segment tree operations passes as init: the
\* neutral element of both combining functions and one that is not
Inits == {0, 1}

\* the combining functions a caller may pass as F: Fn(T, T) -> T
Combiners == {"xor", "first"}

RECURSIVE Xor(_, _)
Xor(a, b) ==
    IF a = 0 THEN b
    ELSE IF b = 0 THEN a
    ELSE (((a % 2) + (b % 2)) % 2) + 2 * Xor(a \div 2, b \div 2)

\* (self.f)(a, b): "xor" is the |a, b| a ^ b of main, "first" the left
\* operand unless it is 0 (associative, not commutative, neutral element 0)
Combine(f, a, b) ==
    CASE f = "xor" -> Xor(a, b)
      [] f = "first" -> IF a # 0 THEN a ELSE b

\* u64::next_power_of_two: the smallest power of two >= n, 1 for n = 0
RECURSIVE PowerOfTwoFrom(_, _)
PowerOfTwoFrom(n, p) == IF p >= n THEN p ELSE PowerOfTwoFrom(n, 2 * p)

NextPowerOfTwo(n) == PowerOfTwoFrom(n, 1)

\* the size is not rounded up to a power of two
SegmentTreeNewNoRound(n, init, f) ==
    [size |-> n, buf |-> [i \in 0..(2 * n - 1) |-> init],
     sentry |-> init, f |-> f]

\* SegmentTree::new
SegmentTreeNew(n, init, f) ==
    LET sz == NextPowerOfTwo(n) IN
      [size |-> sz, buf |-> [i \in 0..(2 * sz - 1) |-> init],
       sentry |-> init, f |-> f]

\* the rebuild writes the nodes 2..pw2-1 only and leaves the root
RECURSIVE FromVecLoopSkipRoot(_, _, _)
FromVecLoopSkipRoot(b, f, i) ==
    IF i < 2 THEN b
    ELSE FromVecLoopSkipRoot([b EXCEPT ![i] = Combine(f, b[i * 2], b[i * 2 + 1])],
                             f, i - 1)

\* from_vec, lines 33-35: for i in (1..pw2).rev()
RECURSIVE FromVecLoop(_, _, _)
FromVecLoop(b, f, i) ==
    IF i < 1 THEN b
    ELSE FromVecLoop([b EXCEPT ![i] = Combine(f, b[i * 2], b[i * 2 + 1])],
                     f, i - 1)

\* SegmentTree::from_vec; vals is the 1-based sequence of the vector other
FromVec(vals, init, f) ==
    LET pw2 == NextPowerOfTwo(Len(vals))
        resized == [i \in 0..(pw2 - 1) |-> IF i < Len(vals) THEN vals[i + 1] ELSE init]
        appended == [i \in 0..(2 * pw2 - 1) |-> IF i < pw2 THEN init ELSE resized[i - pw2]]
    IN [size |-> pw2, buf |-> FromVecLoop(appended, f, pw2 - 1),
        sentry |-> init, f |-> f]

\* the walk stops one level below the root
RECURSIVE UpdateLoopStopsEarly(_, _, _)
UpdateLoopStopsEarly(b, f, i) ==
    IF i > 3
    THEN LET j == i \div 2 IN
         UpdateLoopStopsEarly([b EXCEPT ![j] = Combine(f, b[j * 2], b[j * 2 + 1])], f, j)
    ELSE b

\* update, lines 50-56: while i > 1
RECURSIVE UpdateLoop(_, _, _)
UpdateLoop(b, f, i) ==
    IF i > 1
    THEN LET j == i \div 2 IN
         UpdateLoop([b EXCEPT ![j] = Combine(f, b[j * 2], b[j * 2 + 1])], f, j)
    ELSE b

\* the leaf is taken to be one slot to the left
UpdateLeafOffByOne(t, index, value) ==
    LET i == index + t.size - 1 IN
      IF ~InRange(t.buf, i) THEN [tree |-> t, out |-> "panic"]
      ELSE [tree |-> [t EXCEPT !.buf = UpdateLoop([t.buf EXCEPT ![i] = value], t.f, i)],
            out |-> "ok"]

\* SegmentTree::update
Update(t, index, value) ==
    LET i == index + t.size IN
      IF ~InRange(t.buf, i) THEN [tree |-> t, out |-> "panic"]
      ELSE [tree |-> [t EXCEPT !.buf = UpdateLoop([t.buf EXCEPT ![i] = value], t.f, i)],
            out |-> "ok"]

\* the loop runs while left <= right
RECURSIVE QueryLoopInclusive(_, _, _, _)
QueryLoopInclusive(t, left, right, v) ==
    IF ~(left <= right) THEN [res |-> v, out |-> "ok"]
    ELSE IF left % 2 = 1 /\ ~InRange(t.buf, left) THEN [res |-> v, out |-> "panic"]
    ELSE LET v1 == IF left % 2 = 1 THEN Combine(t.f, v, t.buf[left]) ELSE v
             left1 == IF left % 2 = 1 THEN left + 1 ELSE left
         IN IF right % 2 = 1 /\ ~InRange(t.buf, right - 1)
            THEN [res |-> v1, out |-> "panic"]
            ELSE LET v2 == IF right % 2 = 1 THEN Combine(t.f, v1, t.buf[right - 1]) ELSE v1
                     right1 == IF right % 2 = 1 THEN right - 1 ELSE right
                 IN QueryLoopInclusive(t, left1 \div 2, right1 \div 2, v2)

\* query, lines 64-75: while left < right
RECURSIVE QueryLoop(_, _, _, _)
QueryLoop(t, left, right, v) ==
    IF ~(left < right) THEN [res |-> v, out |-> "ok"]
    ELSE IF left % 2 = 1 /\ ~InRange(t.buf, left) THEN [res |-> v, out |-> "panic"]
    ELSE LET v1 == IF left % 2 = 1 THEN Combine(t.f, v, t.buf[left]) ELSE v
             left1 == IF left % 2 = 1 THEN left + 1 ELSE left
         IN IF right % 2 = 1 /\ ~InRange(t.buf, right - 1)
            THEN [res |-> v1, out |-> "panic"]
            ELSE LET v2 == IF right % 2 = 1 THEN Combine(t.f, v1, t.buf[right - 1]) ELSE v1
                     right1 == IF right % 2 = 1 THEN right - 1 ELSE right
                 IN QueryLoop(t, left1 \div 2, right1 \div 2, v2)

\* the right boundary node is read at right instead of right - 1
QueryReadsRight(t, start, end) ==
    LET RECURSIVE Loop(_, _, _)
        Loop(left, right, v) ==
          IF ~(left < right) THEN [res |-> v, out |-> "ok"]
          ELSE IF left % 2 = 1 /\ ~InRange(t.buf, left) THEN [res |-> v, out |-> "panic"]
          ELSE LET v1 == IF left % 2 = 1 THEN Combine(t.f, v, t.buf[left]) ELSE v
                   left1 == IF left % 2 = 1 THEN left + 1 ELSE left
               IN IF right % 2 = 1 /\ ~InRange(t.buf, right)
                  THEN [res |-> v1, out |-> "panic"]
                  ELSE LET v2 == IF right % 2 = 1 THEN Combine(t.f, v1, t.buf[right]) ELSE v1
                           right1 == IF right % 2 = 1 THEN right - 1 ELSE right
                       IN Loop(left1 \div 2, right1 \div 2, v2)
    IN Loop(start + t.size, end + t.size, t.sentry)

\* SegmentTree::query(start..end)
Query(t, start, end) == QueryLoop(t, start + t.size, end + t.size, t.sentry)

\* SegmentTree::get
Get(t, index) ==
    IF InRange(t.buf, index + t.size)
    THEN [res |-> t.buf[index + t.size], out |-> "ok"]
    ELSE [res |-> 0, out |-> "panic"]

\* ============================================================ cio::Scanner
\* A scanner is [reader, buf, pos]: reader is the input not read yet, buf
\* the current line, a sequence whose element buf[pos + 1] is the byte the
\* source calls self.buf[self.pos].

Chars == {" ", "\n", "a", "b"}
Delims == {" ", "\n"}

\* no token start has been found: Option::None of `from`
NoFrom == -1

\* BufRead::read_until(b'\n', ..): the number of bytes read from rd, the
\* newline included, or all of rd when it has none
RECURSIVE ReadUntil(_, _)
ReadUntil(rd, k) ==
    IF k > Len(rd) THEN Len(rd)
    ELSE IF rd[k] = "\n" THEN k
    ELSE ReadUntil(rd, k + 1)

\* the line is stored as it was read
EnsureNewlineNever(line) == line

\* fill_buf, lines 211-214: ensure buf ends in a newline
EnsureNewline(line) ==
    IF line # <<>> /\ line[Len(line)] = "\n" THEN line ELSE Append(line, "\n")

\* Scanner::fill_buf
FillBuf(sc) ==
    LET n == ReadUntil(sc.reader, 1) IN
      IF n = 0
      THEN [sc |-> [reader |-> sc.reader, buf |-> <<>>, pos |-> 0], out |-> "eof"]
      ELSE [sc |-> [reader |-> SubSeq(sc.reader, n + 1, Len(sc.reader)),
                    buf |-> EnsureNewline(SubSeq(sc.reader, 1, n)),
                    pos |-> 0],
            out |-> "ok"]

\* the slice takes the delimiter along
PartInclusive(b, from, p) == SubSeq(b, from + 1, p + 1)

\* line 120: &self.buf[from.unwrap()..self.pos]
Part(b, from, p) == SubSeq(b, from + 1, p)

\* line 121: part.parse::<T>() for T = String, which copies the slice
Parse(part) == part

\* try_scan, the loop of lines 98-118
RECURSIVE TryScanLoop(_, _)
TryScanLoop(sc, from) ==
    IF sc.pos >= Len(sc.buf) THEN [sc |-> sc, res |-> <<>>, out |-> "panic_index"]
    ELSE LET c == sc.buf[sc.pos + 1] IN
      IF from = NoFrom
      THEN IF c = " " THEN TryScanLoop([sc EXCEPT !.pos = @ + 1], NoFrom)
           ELSE IF c = "\n"
             THEN LET fb == FillBuf(sc) IN
                  IF fb.out = "eof" THEN [sc |-> fb.sc, res |-> <<>>, out |-> "eof"]
                  ELSE TryScanLoop(fb.sc, NoFrom)
           ELSE TryScanLoop([sc EXCEPT !.pos = @ + 1], sc.pos)
      ELSE IF c \in Delims
           THEN [sc |-> sc, res |-> Parse(Part(sc.buf, from, sc.pos)), out |-> "ok"]
           ELSE TryScanLoop([sc EXCEPT !.pos = @ + 1], from)

\* Scanner::try_scan
TryScan(sc) ==
    IF sc.buf = <<>>
    THEN LET fb == FillBuf(sc) IN
         IF fb.out = "eof" THEN [sc |-> fb.sc, res |-> <<>>, out |-> "eof"]
         ELSE TryScanLoop(fb.sc, NoFrom)
    ELSE TryScanLoop(sc, NoFrom)

\* k calls of try_scan in a row, the first error returned by `?`:
\* try_collect (lines 142-146), try_tuple_2 (line 169), try_tuple_3 (196-200)
RECURSIVE TryScanMany(_, _, _)
TryScanMany(sc, k, acc) ==
    IF k = 0 THEN [sc |-> sc, res |-> acc, out |-> "ok"]
    ELSE LET r == TryScan(sc) IN
      IF r.out # "ok" THEN [sc |-> r.sc, res |-> <<>>, out |-> r.out]
      ELSE TryScanMany(r.sc, k - 1, Append(acc, r.res))

\* scan, collect, tuple_2, tuple_3: Err(err) => panic!("{}", err)
OrPanic(r) == [r EXCEPT !.out = IF @ = "eof" THEN "panic" ELSE @]

\* ======================================================= abc151 d: check

Height(m) == VecLen(m)
Width(m) == IF VecLen(m) = 0 THEN 0 ELSE VecLen(m[0])

\* lines 325-326: dh and dw, read as dh[i], dw[i] for i in 0..4
Dh == [i \in 0..3 |-> IF i = 0 THEN 1 ELSE IF i = 2 THEN -1 ELSE 0]
Dw == [i \in 0..3 |-> IF i = 1 THEN 1 ELSE IF i = 3 THEN -1 ELSE 0]

\* line 329: vec![vec![-1; width]; height]
SeenNew(m) == [y \in 0..(Height(m) - 1) |-> [x \in 0..(Width(m) - 1) |-> -1]]

\* the queue is read from its back, as a stack
PopBack(q) == [mv |-> q[Len(q)], rest |-> SubSeq(q, 1, Len(q) - 1)]

\* line 334: queue.pop_front()
PopFront(q) == [mv |-> Head(q), rest |-> Tail(q)]

\* lines 337-354: the loop over the four directions, pushing the road
\* neighbours that are inside the maze and not seen
RECURSIVE PushNeighbours(_, _, _, _, _)
PushNeighbours(m, sn, q, mv, i) ==
    IF i = 4 THEN q
    ELSE LET new_y == mv.y + Dh[i]
             new_x == mv.x + Dw[i]
         IN IF new_y < 0 \/ new_y >= Height(m) \/ new_x < 0 \/ new_x >= Width(m)
            THEN PushNeighbours(m, sn, q, mv, i + 1)
            ELSE IF m[new_y][new_x] # "." \/ sn[new_y][new_x] # -1
            THEN PushNeighbours(m, sn, q, mv, i + 1)
            ELSE PushNeighbours(m, sn,
                     Append(q, [x |-> new_x, y |-> new_y, steps |-> mv.steps + 1]),
                     mv, i + 1)

\* lines 334-355: one turn of the while loop
Dequeue(m, sn, q) ==
    LET p == PopFront(q)
        marked == [sn EXCEPT ![p.mv.y][p.mv.x] = p.mv.steps]
    IN [seen |-> marked, queue |-> PushNeighbours(m, marked, p.rest, p.mv, 0)]

\* lines 357-363: the maximum of seen over the whole maze, from 0
RECURSIVE MaxSeen(_, _, _, _)
MaxSeen(sn, h, w, max) ==
    IF h >= VecLen(sn) THEN max
    ELSE IF w >= VecLen(sn[h]) THEN MaxSeen(sn, h + 1, 0, max)
    ELSE MaxSeen(sn, h, w + 1, IF sn[h][w] > max THEN sn[h][w] ELSE max)

\* ======================================================== abc278 b: Clock

\* Clock::new
ClockNew(h, m) == [h |-> h, m |-> m]

\* Clock::swap
Swap(c) ==
    LET a == c.h \div 10
        b == c.h % 10
        cc == c.m \div 10
        d == c.m % 10
    IN ClockNew(a * 10 + cc, b * 10 + d)

\* Clock::is_valid
IsValid(c) == 0 <= c.h /\ c.h <= 23 /\ 0 <= c.m /\ c.m <= 59

\* the hour is never wrapped at 24
TickNoHourWrap(c) ==
    LET m1 == c.m + 1
        carry == m1 = 60
        m == IF carry THEN 0 ELSE m1
        h == IF carry THEN c.h + 1 ELSE c.h
    IN [h |-> h, m |-> m]

\* Clock::tick
Tick(c) ==
    LET m1 == c.m + 1
        carry == m1 = 60
        m == IF carry THEN 0 ELSE m1
        h1 == IF carry THEN c.h + 1 ELSE c.h
        h == IF h1 = 24 THEN 0 ELSE h1
    IN [h |-> h, m |-> m]

\* Clock::is_confusing
IsConfusing(c) == IsValid(Swap(c))

\* ============================================================ practice b

Alphabet == <<"A", "B", "C", "D", "E", "F", "G", "H", "I", "J", "K", "L", "M",
              "N", "O", "P", "Q", "R", "S", "T", "U", "V", "W", "X", "Y", "Z">>

\* line 66: char::from_u32(idx as u32 + 65)
Letter(i) == Alphabet[i + 1]

\* the judge answers "? x y" by the hidden order of the balls: rank[c] is
\* the place of letter c in it
Answer(rank, x, y) == IF rank[x] < rank[y] THEN "<" ELSE ">"

\* the closure compare of lines 43-61: a cached pair is answered from the
\* cache, any other pair is printed as a query and its answer is stored
Compare(rank, ca, out, x, y) ==
    IF <<x, y>> \in DOMAIN ca
    THEN [result |-> ca[<<x, y>>], cache |-> ca, lines |-> out]
    ELSE LET c == Answer(rank, x, y)
             result == IF c = ">" THEN "Greater" ELSE "Less"
         IN [result |-> result,
             cache |-> [k \in (DOMAIN ca) \cup {<<x, y>>} |->
                          IF k = <<x, y>> THEN result ELSE ca[k]],
             lines |-> Append(out, <<"?", x, y>>)]

\* the two arms move the wrong bound
NarrowSwapped(sr, middle, result) ==
    IF result = "Less" THEN [start |-> sr.start, end |-> middle]
                       ELSE [start |-> middle + 1, end |-> sr.end]

\* lines 17-25: the match on the answer of compare
Narrow(sr, middle, result) ==
    IF result = "Less" THEN [start |-> middle + 1, end |-> sr.end]
                       ELSE [start |-> sr.start, end |-> middle]

\* line 28: vs.insert(start, current), vs[i] of the source being v[i + 1]
VecInsert(v, i, c) == SubSeq(v, 1, i) \o <<c>> \o SubSeq(v, i + 1, Len(v))

\* ============================================================== abc195 b

\* Option<i64>
NoAnswer == [some |-> FALSE, val |-> 0]
Some(v) == [some |-> TRUE, val |-> v]

RECURSIVE SolveMin(_, _, _, _)
RECURSIVE SolveMinLoop(_, _, _, _, _)

\* solve_min, lines 299-311: the loop `for i in a..=b`, acc being the
\* shadowing acc of line 298
SolveMinLoop(a, b, w, acc, i) ==
    IF i > b THEN NoAnswer
    ELSE IF w - i > 0
         THEN LET answer == SolveMin(a, b, w - i, acc) IN
                IF answer.some THEN answer
                ELSE SolveMinLoop(a, b, w, acc, i + 1)
    ELSE IF w - i = 0 THEN Some(acc)
    ELSE NoAnswer

\* solve_min
SolveMin(a, b, w, acc) == SolveMinLoop(a, b, w, acc + 1, a)

RECURSIVE SolveMax(_, _, _, _)
RECURSIVE SolveMaxLoop(_, _, _, _, _)
RECURSIVE SolveMaxLoopAscending(_, _, _, _, _)

\* the loop runs upwards from a, as that of solve_min (a call starts it
\* at i = b)
SolveMaxLoopAscending(a, b, w, acc, i) ==
    IF i < a THEN NoAnswer
    ELSE LET answer == SolveMax(a, b, w - (a + b - i), acc) IN
           IF answer.some THEN answer
           ELSE SolveMaxLoopAscending(a, b, w, acc, i - 1)

\* solve_max, lines 322-327: the loop `for i in (a..=b).rev()`, acc being
\* the shadowing acc of line 321
SolveMaxLoop(a, b, w, acc, i) ==
    IF i < a THEN NoAnswer
    ELSE LET answer == SolveMax(a, b, w - i, acc) IN
           IF answer.some THEN answer
           ELSE SolveMaxLoop(a, b, w, acc, i - 1)

\* solve_max
SolveMax(a, b, w, acc) ==
    IF w = 0 THEN Some(acc)
    ELSE IF w < 0 THEN NoAnswer
    ELSE SolveMaxLoop(a, b, w, acc + 1, b)

\* solve: Some((answer_min, answer_max)) or None
Solve(a, b, w) ==
    LET answer_min == SolveMin(a, b, w, 0) IN
      IF ~answer_min.some THEN NoAnswer
      ELSE LET answer_max == SolveMax(a, b, w, 0) IN
        IF ~answer_max.some THEN NoAnswer
        ELSE Some([min |-> answer_min.val, max |-> answer_max.val])

\* main, lines 346-351: the line printed for the three numbers read
SolveMain(a, b, w) ==
    LET r == Solve(a, b, w * 1000) IN
      IF r.some THEN <<r.val.max, r.val.min>> ELSE <<"UNSATISFIABLE">>

\* ============================================================== abc085 c

\* enum Answer
Impossible == [kind |-> "Impossible", a |-> 0, b |-> 0, c |-> 0]
N(a, b, c) == [kind |-> "N", a |-> a, b |-> b, c |-> c]

\* a negative count of 1000-yen bills is not skipped
RECURSIVE ResolveLoopNegativeC(_, _, _, _)
ResolveLoopNegativeC(requirement, sum, a, b) ==
    IF a > requirement THEN Impossible
    ELSE IF b > requirement THEN ResolveLoopNegativeC(requirement, sum, a + 1, 0)
    ELSE LET c == requirement - a - b
             answer == a * 10000 + b * 5000 + c * 1000
         IN IF answer = sum THEN N(a, b, c)
            ELSE ResolveLoopNegativeC(requirement, sum, a, b + 1)

\* resolve, lines 229-242: the two nested loops over a and b
RECURSIVE ResolveLoop(_, _, _, _)
ResolveLoop(requirement, sum, a, b) ==
    IF a > requirement THEN Impossible
    ELSE IF b > requirement THEN ResolveLoop(requirement, sum, a + 1, 0)
    ELSE LET c == requirement - a - b
             answer == a * 10000 + b * 5000 + c * 1000
         IN IF c < 0 THEN ResolveLoop(requirement, sum, a, b + 1)
            ELSE IF answer = sum THEN N(a, b, c)
            ELSE ResolveLoop(requirement, sum, a, b + 1)

\* resolve
Resolve(requirement, sum) == ResolveLoop(requirement, sum, 0, 0)

\* ================================================================== states

\* no segment tree has been built
NoTree == [size |-> 0, buf |-> <<>>, sentry |-> 0, f |-> "xor"]
NoCall == [op |-> "none", a |-> 0, b |-> 0, res |-> 0, out |-> "ok"]

StIdle ==
    /\ tree = NoTree /\ alt = NoTree /\ ctor = "none"
    /\ other = <<>> /\ idx = 0 /\ tcall = NoCall

ScIdle ==
    /\ input = <<>> /\ reader = <<>> /\ buf = <<>> /\ pos = 0 /\ got = <<>>
    /\ scall = [op |-> "none", n |-> 0, res |-> <<>>, out |-> "ok"]

UfIdle ==
    /\ parent = <<>> /\ size = <<>> /\ ref = <<>>
    /\ call = [op |-> "none", x |-> 0, y |-> 0, res |-> 0, out |-> "ok"]

\* check of abc151 d has not been called
BfIdle ==
    /\ maze = <<>> /\ startCell = <<0, 0>> /\ seen = <<>> /\ queue = <<>>
    /\ pops = 0 /\ maxSteps = 0

\* main of abc278 b has not read its input
CkIdle ==
    /\ clock = [h |-> 0, m |-> 0] /\ t0 = [h |-> 0, m |-> 0]
    /\ ticks = 0 /\ printed = <<>>

\* main of practice b has not read its input
InIdle ==
    /\ order = <<>> /\ vs = <<>> /\ nextIdx = 0 /\ search = <<>>
    /\ cache = <<>> /\ lines = <<>>

\* solve of abc195 b has not been called
SoIdle == solveIn = <<>> /\ solveOut = <<>>

\* resolve of abc085 c has not been called
RsIdle == resolveIn = <<>> /\ resolveOut = <<>>

\* no contest program runs
PrIdle == BfIdle /\ CkIdle /\ InIdle /\ SoIdle /\ RsIdle

\* --------------------------------------------------- Union-Find behaviour

\* arguments a caller may pass: the valid indices and OverRun more
Index == 0..(VecLen(parent) - 1 + OverRun)

\* a panic ends the program, and so does a walk that never returns
Running == call.out = "ok"

Init ==
    \E n \in 0..MaxN :
        /\ parent = UnionFindNew(n).parent
        /\ size = UnionFindNew(n).size
        /\ ref = [i \in 0..(n - 1) |-> i]
        /\ call = [op |-> "new", x |-> n, y |-> 0, res |-> 0, out |-> "ok"]
        /\ StIdle /\ ScIdle /\ PrIdle

UnionStep ==
    /\ Running
    /\ \E x \in Index, y \in Index :
         LET u == Union(parent, size, x, y) IN
           /\ parent' = u.parent
           /\ size' = u.size
           /\ ref' = IF u.res \in {"Unified", "AlreadyUnified"}
                     THEN Merge(ref, x, y) ELSE ref
           /\ call' = [op |-> "union", x |-> x, y |-> y, res |-> u.res,
                       out |-> IF u.res \in {"Unified", "AlreadyUnified"}
                               THEN "ok" ELSE u.res]
    /\ UNCHANGED <<stVars, scVars, prVars>>

\* equiv searches the roots with path compression
EquivStepCompressing ==
    /\ Running
    /\ \E x \in Index, y \in Index :
         LET e == Equiv(parent, x, y)
             rx == RootWithOptimize(parent, x)
         IN /\ call' = [op |-> "equiv", x |-> x, y |-> y, res |-> e.res, out |-> e.out]
            /\ parent' = IF e.out = "ok" THEN RootWithOptimize(rx.parent, y).parent
                          ELSE parent
    /\ UNCHANGED <<size, ref, stVars, scVars, prVars>>

EquivStep ==
    /\ Running
    /\ \E x \in Index, y \in Index :
         LET e == Equiv(parent, x, y) IN
           call' = [op |-> "equiv", x |-> x, y |-> y, res |-> e.res, out |-> e.out]
    /\ UNCHANGED <<parent, size, ref, stVars, scVars, prVars>>

RootStep ==
    /\ Running
    /\ \E x \in Index :
         LET r == Root(parent, x) IN
           call' = [op |-> "root", x |-> x, y |-> x, res |-> r.root, out |-> r.out]
    /\ UNCHANGED <<parent, size, ref, stVars, scVars, prVars>>

SizeStep ==
    /\ Running
    /\ \E x \in Index :
         LET r == Size(size, x) IN
           call' = [op |-> "size", x |-> x, y |-> x, res |-> r.res, out |-> r.out]
    /\ UNCHANGED <<parent, size, ref, stVars, scVars, prVars>>

Next == UnionStep \/ EquivStep \/ RootStep \/ SizeStep

Spec == Init /\ [][Next]_vars

\* the forest of DeepN elements under union calls alone: the calls join
\* x and x + d for d a power of two and x a multiple of 2d, in either
\* argument order (the calls that grow the deepest trees union-by-size allows)
DeepArgs ==
    {xy \in (0..(DeepN - 1)) \X (0..(DeepN - 1)) :
        \E d \in {1, 2, 4} :
            \/ (xy[1] % (2 * d) = 0 /\ xy[2] = xy[1] + d)
            \/ (xy[2] % (2 * d) = 0 /\ xy[1] = xy[2] + d)}

DeepInit ==
    /\ parent = UnionFindNew(DeepN).parent
    /\ size = UnionFindNew(DeepN).size
    /\ ref = [i \in 0..(DeepN - 1) |-> i]
    /\ call = [op |-> "new", x |-> DeepN, y |-> 0, res |-> 0, out |-> "ok"]
    /\ StIdle /\ ScIdle /\ PrIdle

DeepUnionStep ==
    /\ Running
    /\ \E xy \in DeepArgs :
         LET u == Union(parent, size, xy[1], xy[2]) IN
           /\ parent' = u.parent
           /\ size' = u.size
           /\ ref' = IF u.res \in {"Unified", "AlreadyUnified"}
                     THEN Merge(ref, xy[1], xy[2]) ELSE ref
           /\ call' = [op |-> "union", x |-> xy[1], y |-> xy[2], res |-> u.res,
                       out |-> IF u.res \in {"Unified", "AlreadyUnified"}
                               THEN "ok" ELSE u.res]
    /\ UNCHANGED <<stVars, scVars, prVars>>

SpecDeep == DeepInit /\ [][DeepUnionStep]_vars

\* ------------------------------------------------- segment tree behaviour
SeqsUpTo(n) == UNION {[1..k -> Values] : k \in 0..n}

\* index and range arguments a caller may pass
TIndex == 0..(tree.size - 1 + OverRun)

TRunning == ctor # "none" /\ tcall.out = "ok"

SegInit == UfIdle /\ StIdle /\ ScIdle /\ PrIdle

SegNewStep ==
    /\ ctor = "none"
    /\ \E n \in 0..MaxLen, init \in Inits, f \in Combiners :
         /\ tree' = SegmentTreeNew(n, init, f)
         /\ tcall' = [op |-> "new", a |-> n, b |-> init, res |-> 0, out |-> "ok"]
    /\ ctor' = "new"
    /\ other' = <<>>
    /\ UNCHANGED <<alt, idx, ufVars, scVars, prVars>>

FromVecStep ==
    /\ ctor = "none"
    /\ \E vals \in SeqsUpTo(MaxLen), init \in Inits, f \in Combiners :
         /\ tree' = FromVec(vals, init, f)
         /\ other' = vals
         /\ tcall' = [op |-> "from_vec", a |-> Len(vals), b |-> init, res |-> 0, out |-> "ok"]
    /\ ctor' = "from_vec"
    /\ UNCHANGED <<alt, idx, ufVars, scVars, prVars>>

UpdateStep ==
    /\ TRunning
    /\ \E index \in TIndex, value \in Values :
         LET u == Update(tree, index, value) IN
           /\ tree' = u.tree
           /\ tcall' = [op |-> "update", a |-> index, b |-> value, res |-> 0, out |-> u.out]
    /\ other' = <<>>
    /\ UNCHANGED <<alt, ctor, idx, ufVars, scVars, prVars>>

QueryStep ==
    /\ TRunning
    /\ \E start \in 0..(tree.size + OverRun), end \in 0..(tree.size + OverRun) :
         LET q == Query(tree, start, end) IN
           tcall' = [op |-> "query", a |-> start, b |-> end, res |-> q.res, out |-> q.out]
    /\ other' = <<>>
    /\ UNCHANGED <<tree, alt, ctor, idx, ufVars, scVars, prVars>>

GetStep ==
    /\ TRunning
    /\ \E index \in TIndex :
         LET g == Get(tree, index) IN
           tcall' = [op |-> "get", a |-> index, b |-> 0, res |-> g.res, out |-> g.out]
    /\ other' = <<>>
    /\ UNCHANGED <<tree, alt, ctor, idx, ufVars, scVars, prVars>>

SegNext == SegNewStep \/ FromVecStep \/ UpdateStep \/ QueryStep \/ GetStep

SpecSeg == SegInit /\ [][SegNext]_vars

\* the two ways to build a tree from a vector: tree by from_vec, alt by new
\* followed by update(i, other[i]) for every index in order
BuildFromVecStep ==
    /\ ctor = "none"
    /\ \E vals \in SeqsUpTo(MaxBuildLen), init \in Values, f \in Combiners :
         /\ tree' = FromVec(vals, init, f)
         /\ other' = vals
         /\ tcall' = [op |-> "from_vec", a |-> Len(vals), b |-> init, res |-> 0, out |-> "ok"]
    /\ ctor' = "from_vec"
    /\ UNCHANGED <<alt, idx, ufVars, scVars, prVars>>

BuildNewStep ==
    /\ ctor = "from_vec"
    /\ alt' = SegmentTreeNew(Len(other), tree.sentry, tree.f)
    /\ tcall' = [op |-> "new", a |-> Len(other), b |-> tree.sentry, res |-> 0, out |-> "ok"]
    /\ ctor' = "new"
    /\ UNCHANGED <<tree, other, idx, ufVars, scVars, prVars>>

BuildUpdateStep ==
    /\ ctor = "new"
    /\ idx < Len(other)
    /\ LET u == Update(alt, idx, other[idx + 1]) IN
         /\ alt' = u.tree
         /\ tcall' = [op |-> "update", a |-> idx, b |-> other[idx + 1], res |-> 0, out |-> u.out]
    /\ idx' = idx + 1
    /\ UNCHANGED <<tree, ctor, other, ufVars, scVars, prVars>>

BuildNext == BuildFromVecStep \/ BuildNewStep \/ BuildUpdateStep

SpecBuild == SegInit /\ [][BuildNext]_vars

\* ------------------------------------------------------ Scanner behaviour
Inputs == UNION {[1..k -> Chars] : k \in 0..MaxInput}

Scanner == [reader |-> reader, buf |-> buf, pos |-> pos]

\* a call that returned, with a value or with Err(Eof), lets the caller go on
ScRunning == scall.out \in {"ok", "eof"}

\* Scanner::new on the text input
ScanInit ==
    /\ \E text \in Inputs : input = text /\ reader = text
    /\ buf = <<>> /\ pos = 0 /\ got = <<>>
    /\ scall = [op |-> "new", n |-> 0, res |-> <<>>, out |-> "ok"]
    /\ UfIdle /\ StIdle /\ PrIdle

\* the scanner after a call that ended as r, got the values returned so far
Returned(op, n, r, vals) ==
    /\ reader' = r.sc.reader /\ buf' = r.sc.buf /\ pos' = r.sc.pos
    /\ got' = IF r.out = "ok" THEN got \o vals ELSE got
    /\ scall' = [op |-> op, n |-> n, res |-> vals, out |-> r.out]
    /\ UNCHANGED <<input, ufVars, stVars, prVars>>

TryScanStep ==
    /\ ScRunning
    /\ LET r == TryScan(Scanner) IN
         Returned("try_scan", 1, r, IF r.out = "ok" THEN <<r.res>> ELSE <<>>)

ScanStep ==
    /\ ScRunning
    /\ LET r == OrPanic(TryScan(Scanner)) IN
         Returned("scan", 1, r, IF r.out = "ok" THEN <<r.res>> ELSE <<>>)

CollectStep ==
    /\ ScRunning
    /\ \E k \in 0..MaxCollect :
         LET r == OrPanic(TryScanMany(Scanner, k, <<>>)) IN
           Returned("collect", k, r, r.res)

Tuple2Step ==
    /\ ScRunning
    /\ LET r == OrPanic(TryScanMany(Scanner, 2, <<>>)) IN
         Returned("tuple_2", 2, r, r.res)

Tuple3Step ==
    /\ ScRunning
    /\ LET r == OrPanic(TryScanMany(Scanner, 3, <<>>)) IN
         Returned("tuple_3", 3, r, r.res)

ScanNext == TryScanStep \/ ScanStep \/ CollectStep \/ Tuple2Step \/ Tuple3Step

SpecScan == ScanInit /\ [][ScanNext]_vars

\* ---------------------------------------------------- abc151 d behaviour

LibIdle == UfIdle /\ StIdle /\ ScIdle

\* the number of '#' cells of a maze
Walls(m) ==
    Cardinality({c \in (DOMAIN m) \X (0..(Width(m) - 1)) : m[c[1]][c[2]] = "#"})

\* the mazes main reads: height rows of width characters
Mazes ==
    UNION {{m \in [0..(h - 1) -> [0..(w - 1) -> {".", "#"}]] : Walls(m) <= MaxWalls} :
             <<h, w>> \in (1..MaxHeight) \X (1..MaxWidth)}

\* lines 366-372: check(w, h) is called for every road cell, and the call
\* starts with an unseen maze and the start cell alone in the queue
BfsInit ==
    /\ \E m \in Mazes :
         \E y \in 0..(Height(m) - 1), x \in 0..(Width(m) - 1) :
             /\ m[y][x] = "."
             /\ maze = m
             /\ startCell = <<x, y>>
             /\ seen = SeenNew(m)
             /\ queue = <<[x |-> x, y |-> y, steps |-> 0]>>
    /\ pops = 0
    /\ maxSteps = -1
    /\ LibIdle /\ CkIdle /\ InIdle /\ SoIdle /\ RsIdle

Checking == maxSteps = -1

DequeueStep ==
    /\ Checking /\ queue # <<>>
    /\ LET d == Dequeue(maze, seen, queue) IN
         /\ seen' = d.seen
         /\ queue' = d.queue
    /\ pops' = pops + 1
    /\ UNCHANGED <<maze, startCell, maxSteps, libVars, ckVars, inVars, soVars, rsVars>>

CheckReturnStep ==
    /\ Checking /\ queue = <<>>
    /\ maxSteps' = MaxSeen(seen, 0, 0, 0)
    /\ UNCHANGED <<maze, startCell, seen, queue, pops,
                   libVars, ckVars, inVars, soVars, rsVars>>

BfsNext == DequeueStep \/ CheckReturnStep

SpecBfs == BfsInit /\ [][BfsNext]_vars

\* ---------------------------------------------------- abc278 b behaviour

\* main, lines 272-273: the clock is built from the two numbers read, a
\* valid time of day
ClockInit ==
    /\ \E h \in 0..23, m \in 0..59 :
         /\ clock = ClockNew(h, m)
         /\ t0 = ClockNew(h, m)
    /\ ticks = 0
    /\ printed = <<>>
    /\ LibIdle /\ BfIdle /\ InIdle /\ SoIdle /\ RsIdle

\* main, lines 274-279: a turn of the loop that does not break
TickStep ==
    /\ printed = <<>>
    /\ ~IsConfusing(clock)
    /\ clock' = Tick(clock)
    /\ ticks' = ticks + 1
    /\ UNCHANGED <<t0, printed, libVars, bfVars, inVars, soVars, rsVars>>

\* main, lines 275-277 and 281: the break and the println
PrintStep ==
    /\ printed = <<>>
    /\ IsConfusing(clock)
    /\ printed' = <<clock.h, clock.m>>
    /\ UNCHANGED <<clock, t0, ticks, libVars, bfVars, inVars, soVars, rsVars>>

ClockNext == TickStep \/ PrintStep

SpecClock == ClockInit /\ [][ClockNext]_vars

\* main runs to its end: a loop turn that can be taken is taken
SpecClockLive == SpecClock /\ WF_vars(ClockNext)

\* --------------------------------------------------- practice b behaviour

\* the letters main sorts
Letters(n) == {Letter(i) : i \in 0..(n - 1)}

\* the strict total orders on the first n letters
Orders(n) ==
    {r \in [Letters(n) -> 1..n] : \A x \in Letters(n), y \in Letters(n) :
                                     x # y => r[x] # r[y]}

\* main, lines 35-41: n is read, nothing is asked yet
InsertInit ==
    /\ \E n \in 0..MaxLetters : order \in Orders(n)
    /\ vs = <<>> /\ nextIdx = 0 /\ search = <<>>
    /\ cache = <<>> /\ lines = <<>>
    /\ LibIdle /\ BfIdle /\ CkIdle /\ SoIdle /\ RsIdle

Answered == lines # <<>> /\ lines[Len(lines)][1] = "!"
Searching == search # <<>>

\* lines 9-13 of insert, called by the fold of line 67 for the next letter
InsertCallStep ==
    /\ ~Searching /\ nextIdx < VecLen(order)
    /\ IF vs = <<>>
       THEN /\ vs' = <<Letter(nextIdx)>>
            /\ nextIdx' = nextIdx + 1
            /\ UNCHANGED search
       ELSE /\ search' = [start |-> 0, end |-> Len(vs)]
            /\ UNCHANGED <<vs, nextIdx>>
    /\ UNCHANGED <<order, cache, lines, libVars, bfVars, ckVars, soVars, rsVars>>

\* lines 15-27: one turn of the while loop
CompareStep ==
    /\ Searching /\ search.start < search.end
    /\ LET middle == (search.start + search.end) \div 2
           c == Compare(order, cache, lines, vs[middle + 1], Letter(nextIdx))
       IN /\ search' = Narrow(search, middle, c.result)
          /\ cache' = c.cache
          /\ lines' = c.lines
    /\ UNCHANGED <<order, vs, nextIdx, libVars, bfVars, ckVars, soVars, rsVars>>

\* lines 15 and 29-30: the loop ends and the letter is inserted
InsertAtStep ==
    /\ Searching /\ ~(search.start < search.end)
    /\ vs' = VecInsert(vs, search.start, Letter(nextIdx))
    /\ nextIdx' = nextIdx + 1
    /\ search' = <<>>
    /\ UNCHANGED <<order, cache, lines, libVars, bfVars, ckVars, soVars, rsVars>>

\* line 69: the answer is printed after the fold
AnswerStep ==
    /\ ~Searching /\ nextIdx = VecLen(order) /\ ~Answered
    /\ lines' = Append(lines, <<"!", vs>>)
    /\ UNCHANGED <<order, vs, nextIdx, search, cache, libVars, bfVars, ckVars,
                   soVars, rsVars>>

InsertNext == InsertCallStep \/ CompareStep \/ InsertAtStep \/ AnswerStep

SpecInsert == InsertInit /\ [][InsertNext]_vars

\* main runs to its end: a step that can be taken is taken
SpecInsertLive == SpecInsert /\ WF_vars(InsertNext)

\* ----------------------------------------------------- abc195 b behaviour

SolveInit == LibIdle /\ PrIdle

\* solve is called with 1 <= a <= b and w >= 1
SolveStep ==
    /\ solveOut = <<>>
    /\ \E a \in 1..MaxB, b \in 1..MaxB, w \in 1..MaxW :
         /\ a <= b
         /\ solveIn' = [a |-> a, b |-> b, w |-> w]
         /\ solveOut' = [op |-> "solve", res |-> Solve(a, b, w)]
    /\ UNCHANGED <<libVars, bfVars, ckVars, inVars, rsVars>>

\* input lines of main: a and b in grams, w in kilograms
MainInputs ==
    {<<100, 200, 2>>, <<250, 500, 1>>, <<480, 520, 1>>, <<500, 500, 1>>,
     <<750, 750, 1>>}

\* main reads a, b and w and prints one line
SolveMainStep ==
    /\ solveOut = <<>>
    /\ \E line \in MainInputs :
         /\ solveIn' = [a |-> line[1], b |-> line[2], w |-> line[3]]
         /\ solveOut' = [op |-> "main", res |-> SolveMain(line[1], line[2], line[3])]
    /\ UNCHANGED <<libVars, bfVars, ckVars, inVars, rsVars>>

SolveNext == SolveStep \/ SolveMainStep

SpecSolve == SolveInit /\ [][SolveNext]_vars

\* ----------------------------------------------------- abc085 c behaviour

ResolveInit == LibIdle /\ PrIdle

\* the sums passed to resolve: the multiples of 500 up to the largest sum
\* of MaxBills bills and a little more
Sums == {500 * j : j \in 0..(20 * MaxBills + 2)}

\* main, lines 251-252: resolve is called with the two numbers read
ResolveStep ==
    /\ resolveOut = <<>>
    /\ \E n \in 0..MaxBills, y \in Sums :
         /\ resolveIn' = [n |-> n, y |-> y]
         /\ resolveOut' = Resolve(n, y)
    /\ UNCHANGED <<libVars, bfVars, ckVars, inVars, soVars>>

SpecResolve == ResolveInit /\ [][ResolveStep]_vars

\* ------------------------------------------------------ Union-Find claims
Elems == DOMAIN parent
RootOf(p, i) == Root(p, i).root
IsRoot(p, i) == p[i] = None
Roots(p) == {i \in DOMAIN p : IsRoot(p, i)}
Valid(i) == InRange(parent, i)

\* C1: for every root r, size[r] is the number of elements whose root is r
C1_SizeCountsMembers ==
    \A r \in Elems :
        IsRoot(parent, r) =>
            size[r] = Cardinality({i \in Elems : RootOf(parent, i) = r})

C1_Witness ==
    /\ call.op = "union" /\ call.res = "Unified"
    /\ \E r \in Elems : IsRoot(parent, r) /\ size[r] >= 3
    /\ \E i \in Elems : ~IsRoot(parent, i) /\ size[i] >= 2

\* C2: the parent links contain no cycle: the walk from every element ends
\* at a root within n - 1 moves, and no root search fails to return
C2_NoCycle ==
    /\ \A i \in Elems : Root(parent, i).out = "ok"
                        /\ IsRoot(parent, RootOf(parent, i))
    /\ \A i \in Elems : RootWithOptimize(parent, i).out = "ok"
    /\ call.out # "diverge"

C2_Witness ==
    /\ call.op = "union"
    /\ \E i \in Elems : ~IsRoot(parent, i) /\ ~IsRoot(parent, parent[i])

\* C4: equiv(x, y) is true exactly when the union calls made so far connect
\* x and y
C4_EquivIsReferencePartition ==
    \A x \in Elems, y \in Elems :
        /\ Equiv(parent, x, y).out = "ok"
        /\ Equiv(parent, x, y).res <=> (ref[x] = ref[y])

C4_Witness ==
    /\ call.op = "union" /\ call.res = "AlreadyUnified" /\ call.x # call.y
    /\ \E x \in Elems, y \in Elems, z \in Elems :
         /\ x # y /\ ref[x] = ref[y] /\ ref[x] # ref[z]
         /\ ~IsRoot(parent, x) /\ ~IsRoot(parent, y)

\* C6: after union(x, y) equiv(x, y) is true, and when x and y were in
\* different sets the size of the root of x is the sum of the sizes of the
\* two sets before the call
C6_UnionJoinsAndAddsSizes ==
    [][(call'.op = "union" /\ call'.out = "ok" /\ Valid(call'.x) /\ Valid(call'.y))
        => /\ Equiv(parent', call'.x, call'.y).res
           /\ RootOf(parent, call'.x) # RootOf(parent, call'.y)
                => size'[RootOf(parent', call'.x)]
                     = size[RootOf(parent, call'.x)] + size[RootOf(parent, call'.y)]
      ]_vars

C6_Witness ==
    /\ call.op = "union" /\ call.res = "Unified"
    /\ ~IsRoot(parent, call.x)
    /\ size[RootOf(parent, call.x)] >= 3

\* C7: union(x, y) returns AlreadyUnified if x == y or x and y share a root,
\* and Unified in every other case, which is exactly when the number of sets
\* goes down by one
C7_UnionResult ==
    [][(call'.op = "union" /\ Valid(call'.x) /\ Valid(call'.y))
        => /\ call'.res = IF call'.x = call'.y
                             \/ RootOf(parent, call'.x) = RootOf(parent, call'.y)
                          THEN "AlreadyUnified" ELSE "Unified"
           /\ (call'.res = "Unified")
                <=> (Cardinality(Roots(parent')) = Cardinality(Roots(parent)) - 1)
      ]_vars

C7_Witness ==
    /\ call.op = "union" /\ call.res = "AlreadyUnified" /\ call.x # call.y
    /\ Cardinality(Roots(parent)) >= 2

\* C9 as stated: every operation called with an index >= n panics
C9_EveryOutOfRangeCallPanics ==
    (call.op \in {"union", "equiv", "root", "size"}
       /\ (~Valid(call.x) \/ ~Valid(call.y)))
    => call.out = "panic"

\* C9 as amended: every operation called with an index >= n panics, except
\* union(x, x), which returns AlreadyUnified before it reads the arrays
C9_OutOfRangePanicsExceptUnionSelf ==
    /\ (call.op \in {"union", "equiv", "root", "size"}
          /\ (~Valid(call.x) \/ ~Valid(call.y))
          /\ ~(call.op = "union" /\ call.x = call.y))
       => call.out = "panic"
    /\ (call.op = "union" /\ call.x = call.y)
       => (call.out = "ok" /\ call.res = "AlreadyUnified")

C9_Witness ==
    /\ call.op = "union" /\ call.out = "panic"
    /\ Valid(call.x) /\ ~Valid(call.y)
    /\ \E i \in Elems : ~IsRoot(parent, i)

\* C11: union(x, x) returns AlreadyUnified and changes neither parent nor
\* size, for every x
C11_UnionSelfChangesNothing ==
    [][(call'.op = "union" /\ call'.x = call'.y)
        => (call'.res = "AlreadyUnified" /\ parent' = parent /\ size' = size)
      ]_vars

C11_Witness ==
    /\ call.op = "union" /\ call.x = call.y /\ call.res = "AlreadyUnified"
    /\ Valid(call.x) /\ ~IsRoot(parent, call.x) /\ ~IsRoot(parent, parent[call.x])

\* C15: for x and y in different sets, union(x, y) returns Unified and the
\* same call made again right after it returns AlreadyUnified
C15_UnionTwice ==
    [][/\ (call'.op = "union" /\ Valid(call'.x) /\ Valid(call'.y)
             /\ RootOf(parent, call'.x) # RootOf(parent, call'.y))
          => /\ call'.res = "Unified"
             /\ Union(parent', size', call'.x, call'.y).res = "AlreadyUnified"
       /\ (call.op = "union" /\ call.res = "Unified" /\ call'.op = "union"
             /\ call'.x = call.x /\ call'.y = call.y)
          => call'.res = "AlreadyUnified"
      ]_vars

C15_Witness ==
    /\ call.op = "union" /\ call.res = "AlreadyUnified" /\ call.x # call.y
    /\ parent[call.y] = call.x /\ size[call.x] = 2

\* C16: right after new(n), for every n including 0, root(i) = i and
\* size(i) = 1 for every i < n, and equiv(x, y) is false for distinct x, y
C16_NewIsSingletons ==
    call.op = "new" =>
        /\ VecLen(parent) = call.x /\ VecLen(size) = call.x
        /\ \A i \in Elems : /\ Root(parent, i) = [root |-> i, out |-> "ok"]
                            /\ Size(size, i) = [res |-> 1, out |-> "ok"]
        /\ \A x \in Elems, y \in Elems :
             x # y => Equiv(parent, x, y) = [res |-> FALSE, out |-> "ok"]

C16_Witness == call.op = "new" /\ VecLen(parent) >= 3

\* the nodes the walk from x reads, the root included
RECURSIVE Visited(_, _, _)
Visited(p, curr, fuel) ==
    IF p[curr] = None \/ fuel = 0 THEN {curr}
    ELSE {curr} \cup Visited(p, p[curr], fuel - 1)

HasGrandparent(p, v) == p[v] # None /\ p[p[v]] # None

\* the ancestors of v at grandparent distance or beyond
FarAncestors(p, v) == Visited(p, p[p[v]], VecLen(p))

\* x re-pointed at its root, every other parent link kept
PointAtRoot(p, x) ==
    IF p[x] = None THEN p ELSE [p EXCEPT ![x] = RootOf(p, x)]

\* C19 as stated: the root search of union re-points every visited node that
\* has a grandparent at an ancestor at grandparent distance or beyond
C19_EveryVisitedNodeRepointed ==
    \A x \in Elems :
        \A v \in Visited(parent, x, VecLen(parent)) :
            HasGrandparent(parent, v) =>
                RootWithOptimize(parent, x).parent[v] \in FarAncestors(parent, v)

\* C19 as amended: the root search re-points the starting element only, at
\* the root itself; every other visited node keeps its parent
C19_OnlyStartRepointedAtRoot ==
    \A x \in Elems :
        RootWithOptimize(parent, x)
            = [parent |-> PointAtRoot(parent, x), root |-> RootOf(parent, x),
               out |-> "ok"]

C19_Witness ==
    /\ call.op = "union"
    /\ \E x \in Elems :
         \E v \in Visited(parent, x, VecLen(parent)) \ {x} :
            /\ HasGrandparent(parent, v)
            /\ RootWithOptimize(parent, x).parent[v] = parent[v]
            /\ RootWithOptimize(parent, x).parent[x] = parent[parent[v]]
            /\ parent[x] = v

\* ---------------------------------------------------- segment tree claims
Leaf(t, i) == t.buf[i + t.size]

NodeInvariant(t) ==
    \A i \in 1..(t.size - 1) :
        t.buf[i] = Combine(t.f, t.buf[i * 2], t.buf[i * 2 + 1])

\* the fold of the leaves a, ..., b - 1 from the left, seeded with init
RECURSIVE FoldLeaves(_, _, _)
FoldLeaves(t, a, b) ==
    IF a >= b THEN t.sentry
    ELSE Combine(t.f, FoldLeaves(t, a, b - 1), Leaf(t, b - 1))

RECURSIVE XorAll(_)
XorAll(vals) ==
    IF vals = <<>> THEN 0
    ELSE Xor(XorAll(SubSeq(vals, 1, Len(vals) - 1)), vals[Len(vals)])

\* C3: after from_vec and after every later update, every internal node i
\* in [1, size) equals combine(node[2i], node[2i+1])
C3_InternalNodesCombineChildren ==
    ctor = "from_vec" => NodeInvariant(tree)

C3_Witness ==
    /\ ctor = "from_vec" /\ tcall.op = "update" /\ tcall.out = "ok"
    /\ tree.size = 4 /\ tree.f = "xor"
    /\ tree.buf[1] # tree.sentry /\ tree.buf[2] # tree.buf[3]

\* C5: with combine = XOR and init = 0, query(a..b) is the XOR of the leaves
\* a, ..., b - 1 for every 0 <= a <= b <= size; right after from_vec
\* query(0..n) is the XOR of the input; query(i..i+1) is get(i)
C5_XorQueryFoldsLeaves ==
    (ctor = "from_vec" /\ tree.f = "xor" /\ tree.sentry = 0) =>
        /\ \A a \in 0..tree.size, b \in 0..tree.size :
             a <= b => Query(tree, a, b) = [res |-> FoldLeaves(tree, a, b), out |-> "ok"]
        /\ \A i \in 0..(tree.size - 1) :
             Query(tree, i, i + 1).res = Get(tree, i).res
        /\ tcall.op = "from_vec" =>
             Query(tree, 0, Len(other)).res = XorAll(other)
        /\ (tcall.op = "query" /\ tcall.a <= tcall.b /\ tcall.b <= tree.size) =>
             (tcall.out = "ok" /\ tcall.res = FoldLeaves(tree, tcall.a, tcall.b))

C5_Witness ==
    /\ ctor = "from_vec" /\ tree.f = "xor" /\ tree.sentry = 0
    /\ tcall.op = "query" /\ tcall.a = 1 /\ tcall.b = 4 /\ tree.size = 4
    /\ tcall.res = 3
    /\ Leaf(tree, 0) # 0

\* the comparison of the two builds is over when every index was updated
BuildDone == ctor = "new" /\ idx = Len(other)

\* C8 as stated: for any init and combine, from_vec(values) is identical to
\* new(n) followed by update(i, values[i]) for every i in order
C8_FromVecEqualsNewThenUpdates ==
    BuildDone => alt = tree

\* C8 as amended: the two builds are identical whenever
\* combine(init, init) = init
C8_FromVecEqualsNewThenUpdatesIdempotentInit ==
    (BuildDone /\ Combine(tree.f, tree.sentry, tree.sentry) = tree.sentry)
        => alt = tree

C8_Witness ==
    /\ BuildDone /\ Len(other) = 5 /\ tree.size = 8
    /\ tree.f = "first" /\ tree.sentry = 0
    /\ other[1] = 0 /\ other[2] = 2 /\ other[5] = 1
    /\ alt = tree /\ tree.buf[1] = 2

\* C10: update and get with an index >= size, and query with start > end or
\* end > size, panic
C10_OutOfRangeCallsPanic ==
    /\ (tcall.op \in {"update", "get"} /\ tcall.a >= tree.size)
         => tcall.out = "panic"
    /\ (tcall.op = "query" /\ (tcall.a > tcall.b \/ tcall.b > tree.size))
         => tcall.out = "panic"

\* the leaf slot i and its ancestors up to the root
RECURSIVE PathToRoot(_)
PathToRoot(i) == IF i <= 1 THEN {i} ELSE {i} \cup PathToRoot(i \div 2)

\* C12: update(i, v) makes get(i) return v, leaves get(j) unchanged for every
\* j # i, and rewrites no node other than leaf i and its ancestors
C12_UpdateWritesLeafAndAncestors ==
    [][(tcall'.op = "update" /\ tcall'.out = "ok")
        => /\ Get(tree', tcall'.a) = [res |-> tcall'.b, out |-> "ok"]
           /\ \A j \in 0..(tree.size - 1) :
                j # tcall'.a => Get(tree', j) = Get(tree, j)
           /\ \A k \in DOMAIN tree.buf :
                tree'.buf[k] # tree.buf[k] => k \in PathToRoot(tcall'.a + tree.size)
           /\ DOMAIN tree'.buf = DOMAIN tree.buf
           /\ tree'.size = tree.size /\ tree'.sentry = tree.sentry /\ tree'.f = tree.f
      ]_vars

C12_Witness ==
    /\ tcall.op = "update" /\ tcall.out = "ok" /\ tree.size = 4
    /\ tcall.a = 2 /\ tcall.b = 1 /\ Leaf(tree, 2) = 1
    /\ Leaf(tree, 0) = 2 /\ Leaf(tree, 3) = 2 /\ tree.f = "xor"

AllSlotsInit(t, n) ==
    /\ t.size = NextPowerOfTwo(n)
    /\ DOMAIN t.buf = 0..(2 * NextPowerOfTwo(n) - 1)
    /\ \A k \in DOMAIN t.buf : t.buf[k] = t.sentry

\* C13 as stated: right after new(size, init, combine) all
\* 2 * next_power_of_two(size) slots equal init and every internal node is
\* the combine of its children, for any init and combine
C13_NewSatisfiesNodeInvariant ==
    tcall.op = "new" =>
        (AllSlotsInit(tree, tcall.a) /\ tree.sentry = tcall.b /\ NodeInvariant(tree))

\* C13 as amended: all slots equal init, and the internal nodes are the
\* combine of their children exactly when combine(init, init) = init or the
\* tree has no internal node
C13_NewSatisfiesNodeInvariantIdempotentInit ==
    tcall.op = "new" =>
        /\ AllSlotsInit(tree, tcall.a) /\ tree.sentry = tcall.b
        /\ NodeInvariant(tree)
             <=> (Combine(tree.f, tree.sentry, tree.sentry) = tree.sentry
                  \/ tree.size = 1)

C13_Witness ==
    /\ tcall.op = "new" /\ tcall.a = 3 /\ tree.size = 4
    /\ tree.f = "first" /\ tree.sentry = 1 /\ NodeInvariant(tree)

\* C14: query(a..a) returns init for any a, in any state of the tree, and
\* reads no node: the answer is the same on a tree without any slot
C14_EmptyRangeIsInit ==
    ctor # "none" =>
        /\ \A a \in 0..(tree.size + OverRun) :
             /\ Query(tree, a, a) = [res |-> tree.sentry, out |-> "ok"]
             /\ Query([tree EXCEPT !.buf = <<>>], a, a)
                  = [res |-> tree.sentry, out |-> "ok"]
        /\ (tcall.op = "query" /\ tcall.a = tcall.b)
             => (tcall.out = "ok" /\ tcall.res = tree.sentry)

C14_Witness ==
    /\ tcall.op = "query" /\ tcall.a = tcall.b /\ tcall.a > tree.size
    /\ tree.size = 4 /\ tree.buf[1] # tree.sentry /\ tcall.res = tree.sentry

\* properties of the combining function over the stored values
Commutative(f) ==
    \A a \in Values, b \in Values : Combine(f, a, b) = Combine(f, b, a)

Neutral(f, e) ==
    \A a \in Values : Combine(f, e, a) = a /\ Combine(f, a, e) = a

QueryIsLeftFold ==
    \A a \in 0..tree.size, b \in 0..tree.size :
        a <= b => Query(tree, a, b) = [res |-> FoldLeaves(tree, a, b), out |-> "ok"]

\* C20 as stated: for any associative combine with neutral element init,
\* commutative or not, query(a..b) on a valid range is the left-to-right
\* fold of the leaves a, ..., b - 1
C20_QueryFoldsAnyAssociativeCombine ==
    (ctor # "none" /\ Neutral(tree.f, tree.sentry)) => QueryIsLeftFold

\* C20 as amended: the same for a combine that is also commutative
C20_QueryFoldsCommutativeCombine ==
    (ctor # "none" /\ Neutral(tree.f, tree.sentry) /\ Commutative(tree.f))
        => QueryIsLeftFold

C20_Witness ==
    /\ ctor = "new" /\ tree.f = "xor" /\ tree.sentry = 0 /\ tree.size = 4
    /\ tcall.op = "query" /\ tcall.a = 0 /\ tcall.b = 3 /\ tcall.out = "ok"
    /\ Leaf(tree, 0) = 1 /\ Leaf(tree, 1) = 0 /\ Leaf(tree, 2) = 2
    /\ tcall.res = 3

\* ---------------------------------------------------------- Scanner claims
\* the tokens of a text: the maximal runs of characters other than space
\* and newline, in order
RECURSIVE Split(_, _, _)
Split(text, i, cur) ==
    IF i > Len(text) THEN (IF cur = <<>> THEN <<>> ELSE <<cur>>)
    ELSE IF text[i] \in Delims
      THEN (IF cur = <<>> THEN <<>> ELSE <<cur>>) \o Split(text, i + 1, <<>>)
      ELSE Split(text, i + 1, Append(cur, text[i]))

Tokens(text) == Split(text, 1, <<>>)

IsPrefix(s, t) == Len(s) <= Len(t) /\ s = SubSeq(t, 1, Len(s))

\* C17: the values returned by successive scan / collect / tuple_2 / tuple_3
\* calls are the tokens of the input in order, one token per value; a call
\* returns whenever the input still holds as many tokens as it asks for
C17_CallsReturnTokensInOrder ==
    /\ IsPrefix(got, Tokens(input))
    /\ scall.out = "ok" =>
         /\ Len(scall.res) = scall.n
         /\ scall.res = SubSeq(got, Len(got) - scall.n + 1, Len(got))
    /\ scall.out \in {"panic", "eof"} =>
         Len(Tokens(input)) - Len(got) < scall.n
    /\ scall.out # "panic_index"

C17_Witness ==
    /\ scall.op = "tuple_2" /\ scall.out = "ok" /\ Len(got) = 3
    /\ got[2] # got[3]
    /\ input[Len(input)] \notin Delims
    /\ \E i \in 1..Len(input) : input[i] = "\n"

\* C18: when no token remains try_scan returns Err(Eof) and does not panic,
\* and pos always indexes a byte of the line buffer, which ends in a newline
C18_EofWithoutPanic ==
    [][/\ (scall'.op = "try_scan" /\ got = Tokens(input))
          => (scall'.out = "eof" /\ got' = got /\ buf' = <<>> /\ pos' = 0)
       /\ scall'.out # "panic_index"
       /\ buf' # <<>> => (pos' < Len(buf') /\ buf'[Len(buf')] = "\n")
       /\ buf' = <<>> => pos' = 0
      ]_vars

C18_Witness ==
    /\ scall.op = "try_scan" /\ scall.out = "eof"
    /\ Len(got) = 2 /\ input[Len(input)] = " "

\* --------------------------------------------- Union-Find claims, continued

\* C21: when union(x, y) merges two sets with old roots rx and ry, the root
\* of the smaller set is attached under the root of the larger one, and ry
\* under rx on equal sizes; the surviving root stays a root and its size
\* becomes the sum of both, the attached root's parent becomes the surviving
\* root, and union(0, 1) on fresh singletons gives size(0) == 2
C21_SmallerRootAttachedUnderLarger ==
    [][(call'.op = "union" /\ call'.res = "Unified")
        => LET rx == RootOf(parent, call'.x)
               ry == RootOf(parent, call'.y)
               surviving == IF size[rx] >= size[ry] THEN rx ELSE ry
               attached == IF size[rx] >= size[ry] THEN ry ELSE rx
           IN /\ parent'[attached] = surviving
              /\ IsRoot(parent', surviving)
              /\ size'[surviving] = size[rx] + size[ry]
              /\ size'[attached] = size[attached]
              /\ (call.op = "new" /\ call'.x = 0 /\ call'.y = 1)
                   => Size(size', 0).res = 2
      ]_vars

C21_Witness ==
    /\ call.op = "union" /\ call.res = "Unified"
    /\ IsRoot(parent, call.y) /\ size[call.y] = 3
    /\ parent[call.x] = call.y /\ size[call.x] = 1

\* the elements the union calls made so far connect with i
ClassOf(i) == {j \in Elems : ref[j] = ref[i]}

\* the number of elements of the largest set, 0 when there is no element
LargestSet ==
    IF Elems = {} THEN 0
    ELSE CHOOSE k \in 1..VecLen(parent) :
           /\ \E i \in Elems : Cardinality(ClassOf(i)) = k
           /\ \A i \in Elems : Cardinality(ClassOf(i)) <= k

\* C22: after any sequence of union calls size[i] of every non-root element
\* i is at most size[root(i)], so the maximum of size(i) over all indices,
\* which main prints, is the number of elements of the largest set (0 when
\* n == 0)
C22_MaxSizeIsLargestSet ==
    /\ \A i \in Elems : ~IsRoot(parent, i) => size[i] <= size[RootOf(parent, i)]
    /\ MainOutput(size) = LargestSet

C22_Witness ==
    /\ call.op = "union" /\ call.res = "Unified"
    /\ \E i \in Elems : ~IsRoot(parent, i) /\ size[i] >= 2
    /\ \E i \in Elems : i > 0 /\ IsRoot(parent, i) /\ size[i] = MainOutput(size)
                        /\ size[i] > size[0]

\* the number of parent links from i to its root
RECURSIVE Depth(_, _, _)
Depth(p, i, fuel) ==
    IF p[i] = None \/ fuel = 0 THEN 0 ELSE 1 + Depth(p, p[i], fuel - 1)

\* floor(log2(s)) for s >= 1
RECURSIVE FloorLog2(_)
FloorLog2(s) == IF s <= 1 THEN 0 ELSE 1 + FloorLog2(s \div 2)

\* C24: after any sequence of union calls the number of parent links from
\* any element to its root is at most floor(log2(s)), where s is the size of
\* the set containing it
C24_DepthAtMostLog2OfSize ==
    \A i \in Elems :
        /\ Depth(parent, i, VecLen(parent))
             <= FloorLog2(Cardinality(ClassOf(i)))
        /\ Cardinality(ClassOf(i)) = size[RootOf(parent, i)]

C24_Witness ==
    /\ call.op = "union" /\ call.res = "Unified"
    /\ \E i \in Elems :
         /\ Depth(parent, i, VecLen(parent)) = 2
         /\ Cardinality(ClassOf(i)) = 4
    /\ \E j \in Elems :
         /\ Depth(parent, j, VecLen(parent)) = 1
         /\ ~IsRoot(parent, j) /\ size[j] = 2

\* C29: equiv(x, y) and root(x) do not mutate the structure: parent and size
\* of every element are unchanged by them, and only union rewrites parent
\* pointers
C29_EquivAndRootDoNotMutate ==
    [][/\ call'.op \in {"equiv", "root"} => (parent' = parent /\ size' = size)
       /\ parent' # parent => call'.op = "union"
      ]_vars

C29_Witness ==
    /\ call.op = "equiv" /\ call.out = "ok" /\ call.res = TRUE
    /\ Valid(call.x) /\ Depth(parent, call.x, VecLen(parent)) = 2
    /\ RootWithOptimize(parent, call.x).parent # parent

\* ------------------------------------------------------- abc151 d claims

MazeCells == {c \in (DOMAIN maze) \X (0..(Width(maze) - 1)) : TRUE}
IsRoad(c) == maze[c[1]][c[2]] = "."
Adjacent(c, d) ==
    \/ (c[1] = d[1] /\ (c[2] = d[2] + 1 \/ d[2] = c[2] + 1))
    \/ (c[2] = d[2] /\ (c[1] = d[1] + 1 \/ d[1] = c[1] + 1))

\* the cells at exactly k steps from the start, level by level: dist maps
\* the cells of the earlier levels to their number of steps
RECURSIVE ShortestFrom(_, _, _)
ShortestFrom(frontier, dist, k) ==
    IF frontier = {} THEN dist
    ELSE LET now == [c \in MazeCells |-> IF c \in frontier THEN k ELSE dist[c]]
             next == {d \in MazeCells :
                        /\ IsRoad(d) /\ now[d] = -1
                        /\ \E c \in frontier : Adjacent(c, d)}
         IN ShortestFrom(next, now, k + 1)

\* the least number of 4-neighbour steps through road cells from the start
\* to every cell <<y, x>>, -1 where there is no such walk
Shortest ==
    ShortestFrom({<<startCell[2], startCell[1]>>}, [c \in MazeCells |-> -1], 0)

\* C23: when the queue of check becomes empty, seen[y][x] is the shortest
\* number of steps from the start for every reachable road cell and -1 for
\* every other cell, and no dequeue overwrites a seen value with a larger one
C23_SeenIsShortestDistance ==
    [][/\ queue' = <<>>
            => [c \in MazeCells |-> seen'[c[1]][c[2]]] = Shortest
       /\ \A c \in MazeCells :
            seen[c[1]][c[2]] # -1 => seen'[c[1]][c[2]] <= seen[c[1]][c[2]]
      ]_vars

C23_Witness ==
    /\ queue = <<>> /\ maxSteps >= 3
    /\ pops > Cardinality({c \in MazeCells : seen[c[1]][c[2]] # -1})
    /\ \E c \in MazeCells : IsRoad(c) /\ seen[c[1]][c[2]] = -1

\* ------------------------------------------------------- abc278 b claims

\* the time of day k minutes after c, wrapping past 23:59 to 00:00
MinutesAfter(c, k) ==
    LET t == (c.h * 60 + c.m + k) % (24 * 60)
    IN [h |-> t \div 60, m |-> t % 60]

\* the swapped form of c is a valid time: its hour is the tens digit of h
\* followed by the tens digit of m, its minute the units digit of h followed
\* by the units digit of m
SwappedIsTime(c) ==
    /\ (c.h \div 10) * 10 + (c.m \div 10) \in 0..23
    /\ (c.h % 10) * 10 + (c.m % 10) \in 0..59

\* C25: from every valid start time the loop of main terminates, the clock
\* is a valid time after every tick, and the printed time is the first time
\* at or after the start, in one-minute steps wrapping past 23:59, whose
\* swapped form is a valid time
C25_PrintsFirstConfusingTime ==
    /\ <>(printed # <<>>)
    /\ [](/\ IsValid(clock)
          /\ clock = MinutesAfter(t0, ticks)
          /\ \A k \in 0..(ticks - 1) : ~SwappedIsTime(MinutesAfter(t0, k))
          /\ printed # <<>>
               => /\ printed = <<clock.h, clock.m>>
                  /\ SwappedIsTime(clock))

C25_Witness ==
    /\ printed = <<0, 0>> /\ t0 = [h |-> 23, m |-> 40] /\ ticks = 20

\* ------------------------------------------------------ practice b claims

\* v is ascending by the hidden order
SortedBy(rank, v) ==
    \A i \in 1..Len(v), j \in 1..Len(v) : i < j => rank[v[i]] < rank[v[j]]

\* the first i elements of v are below c and the others above it
InsertionPoint(rank, v, i, c) ==
    /\ \A k \in 1..i : rank[v[k]] < rank[c]
    /\ \A k \in (i + 1)..Len(v) : rank[c] < rank[v[k]]

\* C26: with answers that follow a strict total order on the first n
\* letters, the vector is ascending by that order after every insert, every
\* binary search ends (its range shrinks at every turn) with start == end at
\* the insertion position, and the '!' line is the n letters in ascending
\* order, printed once, after every '?' line
C26_BinaryInsertionSorts ==
    /\ <>Answered
    /\ [](/\ SortedBy(order, vs)
          /\ {vs[i] : i \in 1..Len(vs)} = Letters(nextIdx)
          /\ Len(vs) = nextIdx
          /\ \A i \in 1..(Len(lines) - 1) : lines[i][1] = "?"
          /\ Answered => /\ lines[Len(lines)] = <<"!", vs>>
                         /\ Len(vs) = VecLen(order))
    /\ [][/\ (Searching /\ Searching')
               => /\ search'.end - search'.start < search.end - search.start
                  /\ search'.start <= search'.end
          /\ (Searching /\ ~Searching')
               => /\ search.start = search.end
                  /\ InsertionPoint(order, vs, search.start, Letter(nextIdx))
          /\ Answered => lines' = lines
         ]_vars

C26_Witness ==
    /\ Answered /\ Len(vs) = 4 /\ vs[1] = "D" /\ vs[3] = "A"
    /\ Len(lines) >= 6 /\ lines[1] = <<"?", "A", "B">>

\* ------------------------------------------------------- abc195 b claims

\* the sums of k integers each in a..b
RECURSIVE SumsOf(_, _, _)
SumsOf(a, b, k) ==
    IF k = 0 THEN {0} ELSE {s + i : s \in SumsOf(a, b, k - 1), i \in a..b}

\* the numbers k of integers each in a..b that sum to w
Counts(a, b, w) == {k \in 1..w : w \in SumsOf(a, b, k)}

\* the same numbers, k integers in a..b having every sum from k*a to k*b
CountsByRange(a, b, w) == {k \in 1..w : k * a <= w /\ w <= k * b}

Smallest(S) == CHOOSE k \in S : \A j \in S : k <= j
Largest(S) == CHOOSE k \in S : \A j \in S : j <= k

\* C27: for 1 <= a <= b and w >= 1, solve(a, b, w) is None exactly when w
\* is not a sum of integers each in [a, b]; otherwise solve_min returns the
\* largest and solve_max the smallest number of such integers summing to w,
\* and main prints the smallest count followed by the largest
C27_SolveFindsSmallestAndLargestCount ==
    /\ solveOut # <<>> /\ solveOut.op = "solve"
         => LET a == solveIn.a
                b == solveIn.b
                w == solveIn.w
                ks == Counts(a, b, w)
            IN /\ ks = CountsByRange(a, b, w)
               /\ solveOut.res.some <=> ks # {}
               /\ SolveMin(a, b, w, 0).some <=> ks # {}
               /\ SolveMax(a, b, w, 0).some <=> ks # {}
               /\ ks # {} => /\ SolveMin(a, b, w, 0).val = Largest(ks)
                             /\ SolveMax(a, b, w, 0).val = Smallest(ks)
                             /\ solveOut.res.val.min = Largest(ks)
                             /\ solveOut.res.val.max = Smallest(ks)
    /\ solveOut # <<>> /\ solveOut.op = "main"
         => LET ks == CountsByRange(solveIn.a, solveIn.b, solveIn.w * 1000)
            IN solveOut.res = IF ks = {} THEN <<"UNSATISFIABLE">>
                              ELSE <<Smallest(ks), Largest(ks)>>

C27_Witness ==
    /\ solveOut # <<>> /\ solveOut.op = "solve"
    /\ solveIn = [a |-> 2, b |-> 3, w |-> 8]
    /\ solveOut.res = Some([min |-> 4, max |-> 3])

\* ------------------------------------------------------- abc085 c claims

\* the triples of bill counts that make n bills worth y yen
Triples(n, y) ==
    {t \in (0..n) \X (0..n) \X (0..n) :
        /\ t[1] + t[2] + t[3] = n
        /\ 10000 * t[1] + 5000 * t[2] + 1000 * t[3] = y}

\* C28: for n >= 0, resolve(n, y) returns N(a, b, c) only with a, b, c >= 0,
\* a + b + c == n and 10000*a + 5000*b + 1000*c == y, and returns Impossible
\* exactly when no such triple exists
C28_ResolveFindsBills ==
    resolveOut # <<>>
      => LET ts == Triples(resolveIn.n, resolveIn.y) IN
           /\ resolveOut.kind = "N"
                => <<resolveOut.a, resolveOut.b, resolveOut.c>> \in ts
           /\ resolveOut.kind = "Impossible" <=> ts = {}

C28_Witness ==
    /\ resolveIn = [n |-> 3, y |-> 16000]
    /\ resolveOut = N(1, 1, 1)

====
